---- MODULE Spec2Model ----
(***************************************************************************)
(* Model of Aws_cost2slack.py: the monthly per-account AWS cost report     *)
(* that lambda_handler builds as a CSV table and uploads to Slack.         *)
(*                                                                         *)
(* Python strings are sequences of one-character strings, so that          *)
(* str.split, str.strip, float(), strftime and strptime are computed       *)
(* character by character.  Python's None is the one-element sequence      *)
(* NoneVal, whose element is not a single character.                       *)
(*                                                                         *)
(* A float is modelled exactly as an integer number of thousandths.  The   *)
(* amounts the Cost Explorer collaborator returns are drawn from dyadic    *)
(* values (multiples of 0.125), for which binary floating-point parsing    *)
(* and addition are exact and the '.2f' format rounds exact ties to even.  *)
(***************************************************************************)
EXTENDS Integers, Sequences, FiniteSets, TLC

(* ------------------------------ bounds -------------------------------- *)

\* Longest MEMBER_ACCOUNTS environment string that is enumerated.
MaxEnvLen == 3

\* Most entries (commas + 1) of an enumerated MEMBER_ACCOUNTS string.
MaxAccounts == 2

\* Most non-matching groups placed in front of the deciding group of a response.
MaxLeadingGroups == 1

(* ------------------------------ strings ------------------------------- *)

NoneVal == <<"None">>

DigitChars == <<"0", "1", "2", "3", "4", "5", "6", "7", "8", "9">>

IsDigit(c) == \E i \in 1..10 : DigitChars[i] = c

DigitVal(c) == (CHOOSE i \in 1..10 : DigitChars[i] = c) - 1

IsSpace(c) == c = " "

\* Python truthiness of an os.environ.get result: None and '' are falsy.
Truthy(v) == v # NoneVal /\ v # <<>>

RECURSIVE NatToStr(_)
NatToStr(n) ==
    IF n < 10 THEN <<DigitChars[n + 1]>>
    ELSE NatToStr(n \div 10) \o <<DigitChars[(n % 10) + 1]>>

RECURSIVE ZeroPad(_, _)
ZeroPad(s, width) == IF Len(s) >= width THEN s ELSE ZeroPad(<<"0">> \o s, width)

RECURSIVE StrToNat(_)
StrToNat(s) ==
    IF s = <<>> THEN 0
    ELSE StrToNat(SubSeq(s, 1, Len(s) - 1)) * 10 + DigitVal(s[Len(s)])

\* str.strip(): drop leading and trailing whitespace.
RECURSIVE LStrip(_)
LStrip(s) == IF s # <<>> /\ IsSpace(Head(s)) THEN LStrip(Tail(s)) ELSE s

RECURSIVE RStrip(_)
RStrip(s) ==
    IF s # <<>> /\ IsSpace(s[Len(s)]) THEN RStrip(SubSeq(s, 1, Len(s) - 1)) ELSE s

Strip(s) == RStrip(LStrip(s))

\* str.split(','): one entry per comma plus one, empty entries kept.
RECURSIVE SplitFrom(_, _, _)
SplitFrom(s, i, cur) ==
    IF i > Len(s) THEN <<cur>>
    ELSE IF s[i] = "," THEN <<cur>> \o SplitFrom(s, i + 1, <<>>)
    ELSE SplitFrom(s, i + 1, Append(cur, s[i]))

SplitComma(s) == SplitFrom(s, 1, <<>>)

\* [acc_id.strip() for acc_id in member_accounts_str.split(',')]
ParseMemberAccounts(s) ==
    LET parts == SplitComma(s) IN [i \in 1..Len(parts) |-> Strip(parts[i])]

(* ------------------------------- dates -------------------------------- *)

IsLeap(y) == (y % 4 = 0 /\ y % 100 # 0) \/ y % 400 = 0

DaysInMonth(y, m) ==
    IF m = 2 THEN (IF IsLeap(y) THEN 29 ELSE 28)
    ELSE IF m \in {4, 6, 9, 11} THEN 30 ELSE 31

\* datetime.replace(day=1)
ReplaceDay1(d) == [d EXCEPT !.day = 1]

\* datetime - relativedelta(days=1)
MinusOneDay(d) ==
    IF d.day > 1 THEN [d EXCEPT !.day = d.day - 1]
    ELSE IF d.month > 1
         THEN [year |-> d.year, month |-> d.month - 1,
               day |-> DaysInMonth(d.year, d.month - 1)]
         ELSE [year |-> d.year - 1, month |-> 12, day |-> 31]

\* strftime('%Y-%m-%d')
StrftimeYmd(d) ==
    ZeroPad(NatToStr(d.year), 4) \o <<"-">> \o ZeroPad(NatToStr(d.month), 2)
        \o <<"-">> \o ZeroPad(NatToStr(d.day), 2)

\* strftime('%Y-%m')
StrftimeYm(d) ==
    ZeroPad(NatToStr(d.year), 4) \o <<"-">> \o ZeroPad(NatToStr(d.month), 2)

\* datetime.strptime(s, '%Y-%m-%d') on a string strftime('%Y-%m-%d') produced.
StrptimeYmd(s) ==
    [year |-> StrToNat(SubSeq(s, 1, 4)), month |-> StrToNat(SubSeq(s, 6, 7)),
     day |-> StrToNat(SubSeq(s, 9, 10))]

\* Mutant: the day is subtracted from today, not from the first of its month.
get_previous_month_dates_FromToday(today) ==
    LET last_day_previous_month == MinusOneDay(today)
        first_day_previous_month == ReplaceDay1(last_day_previous_month)
    IN  <<StrftimeYmd(first_day_previous_month), StrftimeYmd(last_day_previous_month)>>

\* get_previous_month_dates(), with datetime.now() passed in as today.
get_previous_month_dates(today) ==
    LET first_day_current_month == ReplaceDay1(today)
        last_day_previous_month == MinusOneDay(first_day_current_month)
        first_day_previous_month == ReplaceDay1(last_day_previous_month)
    IN  <<StrftimeYmd(first_day_previous_month), StrftimeYmd(last_day_previous_month)>>

(* ------------------------------ floats -------------------------------- *)

DotPositions(s) == {i \in 1..Len(s) : s[i] = "."}

\* The decimal literals float() accepts, over the characters the model uses:
\* optional sign, digits with at most one point, at least one digit.
IsDecimalLiteral(s) ==
    LET body == IF s # <<>> /\ Head(s) \in {"-", "+"} THEN Tail(s) ELSE s
        dots == DotPositions(body)
    IN  /\ Cardinality(dots) <= 1
        /\ \A i \in 1..Len(body) : IsDigit(body[i]) \/ body[i] = "."
        /\ \E i \in 1..Len(body) : IsDigit(body[i])

\* Value in thousandths of a decimal literal with at most three fraction digits.
DecimalValue(s) ==
    LET neg == s # <<>> /\ Head(s) = "-"
        body == IF s # <<>> /\ Head(s) \in {"-", "+"} THEN Tail(s) ELSE s
        dots == DotPositions(body)
        dot == IF dots = {} THEN Len(body) + 1 ELSE CHOOSE i \in dots : TRUE
        whole == SubSeq(body, 1, dot - 1)
        frac == SubSeq(body, dot + 1, Len(body))
        frac3 == SubSeq(frac \o <<"0", "0", "0">>, 1, 3)
        mag == StrToNat(whole) * 1000 + StrToNat(frac3)
    IN  IF neg THEN 0 - mag ELSE mag

\* float(x): TypeError for a non-string, ValueError for a non-numeric string.
PyFloat(x) ==
    IF x = NoneVal THEN [exc |-> "TypeError", val |-> 0]
    ELSE IF IsDecimalLiteral(Strip(x))
         THEN [exc |-> "none", val |-> DecimalValue(Strip(x))]
         ELSE [exc |-> "ValueError", val |-> 0]

\* f"{v:.2f}": round to hundredths, exact ties to even, two fraction digits.
FormatTwoDecimals(v) ==
    LET mag == IF v < 0 THEN 0 - v ELSE v
        q == mag \div 10
        r == mag % 10
        cents == IF r > 5 \/ (r = 5 /\ q % 2 = 1) THEN q + 1 ELSE q
    IN  (IF v < 0 THEN <<"-">> ELSE <<>>)
            \o NatToStr(cents \div 100) \o <<".">> \o ZeroPad(NatToStr(cents % 100), 2)

(* ------------------------------ literals ------------------------------ *)

ERROR_MARK == <<"E", "R", "R", "O", "R">>

ZERO_COST == <<"0", ".", "0", "0">>

DEFAULT_AMOUNT == <<"0", ".", "0">>

NAME_NOT_FOUND ==
    <<"N", "a", "m", "e", " ", "N", "o", "t", " ", "F", "o", "u", "n", "d">>

TOTAL_LABEL == <<"T", "o", "t", "a", "l">>

HEADER_ROW ==
    << <<"A", "c", "c", "o", "u", "n", "t", " ", "I", "D">>,
       <<"A", "c", "c", "o", "u", "n", "t", " ", "N", "a", "m", "e">>,
       <<"M", "o", "n", "t", "h">>,
       <<"N", "e", "t", "A", "m", "o", "r", "t", "i", "z", "e", "d", "C", "o", "s", "t">>,
       <<"U", "n", "b", "l", "e", "n", "d", "e", "d", "C", "o", "s", "t">> >>

FILE_PREFIX == <<"a", "w", "s", "_", "c", "o", "s", "t", "_">>

FILE_SUFFIX == <<".", "c", "s", "v">>

\* The identifier the name table knows, within the model's alphabet.
KNOWN_ACCOUNT == <<"7">>

KNOWN_ACCOUNT_NAME ==
    <<"Y", "o", "u", "r", " ", "A", "c", "c", "o", "u", "n", "t", " ", "N", "a", "m", "e">>

\* ACCOUNT_NAMES.get(account_id, "Name Not Found")
AccountName(account_id) ==
    IF account_id = KNOWN_ACCOUNT THEN KNOWN_ACCOUNT_NAME ELSE NAME_NOT_FOUND

\* Mutant: the label is left out of the file name.
CsvFilename_NoLabel(label) == FILE_PREFIX \o FILE_SUFFIX

\* f"aws_cost_{report_month_year}.csv"
CsvFilename(label) == FILE_PREFIX \o label \o FILE_SUFFIX

(* ----------------------- the metrics response -------------------------- *)

\* dict.get(k, default); a dict is a function on its keys, {} is <<>>.
DictGet(d, k, default) == IF k \in DOMAIN d THEN d[k] ELSE default

Metric(amount) == [Amount |-> amount, Unit |-> "USD"]

EIGHTH == <<"0", ".", "1", "2", "5">>

TWO_AND_HALF == <<"2", ".", "5">>

MINUS_TWO_AND_HALF == <<"-", "2", ".", "5">>

NOT_A_NUMBER == <<"a", "b", "c">>

\* A matching group's 'Metrics'.  The amounts are dyadic decimals, a non-numeric
\* string or a non-string (None); a metric, or its 'Amount', may be absent.
MetricsChoices ==
    { [NetAmortizedCost |-> Metric(EIGHTH), UnblendedCost |-> Metric(MINUS_TWO_AND_HALF)],
      [NetAmortizedCost |-> Metric(EIGHTH), UnblendedCost |-> Metric(NOT_A_NUMBER)],
      [NetAmortizedCost |-> Metric(NOT_A_NUMBER), UnblendedCost |-> Metric(TWO_AND_HALF)],
      [NetAmortizedCost |-> Metric(TWO_AND_HALF), UnblendedCost |-> Metric(NoneVal)],
      [NetAmortizedCost |-> [Unit |-> "USD"]] }

\* A linked account that is never in MEMBER_ACCOUNTS (its digit is not in the alphabet).
OTHER_ACCOUNT == <<"9">>

OtherGroup ==
    [Keys |-> <<OTHER_ACCOUNT>>,
     Metrics |-> [NetAmortizedCost |-> Metric(TWO_AND_HALF),
                  UnblendedCost |-> Metric(TWO_AND_HALF)]]

\* The groups keyed by account_id, with their metrics.
MatchingGroups(account_id) ==
    {[Keys |-> <<account_id>>, Metrics |-> m] : m \in MetricsChoices}

\* Groups of an unexpected shape: no metrics, an empty key list, no key list.
MalformedGroups(account_id) ==
    {[Keys |-> <<account_id>>], [Keys |-> <<>>, Metrics |-> <<>>], [Metrics |-> <<>>]}

RECURSIVE Repeat(_, _)
Repeat(x, n) == IF n = 0 THEN <<>> ELSE <<x>> \o Repeat(x, n - 1)

\* A second matching group after the deciding one (the scan stops at the first).
TrailingGroups(account_id) ==
    { <<>>,
      << [Keys |-> <<account_id>>,
          Metrics |-> [NetAmortizedCost |-> Metric(TWO_AND_HALF),
                       UnblendedCost |-> Metric(TWO_AND_HALF)]] >> }

GroupLists(account_id) ==
    {Repeat(OtherGroup, k) : k \in 0..MaxLeadingGroups}
        \cup {Repeat(OtherGroup, k) \o <<g>> \o t :
                k \in 0..MaxLeadingGroups, g \in MatchingGroups(account_id),
                t \in TrailingGroups(account_id)}
        \cup {Repeat(OtherGroup, k) \o <<g>> :
                k \in 0..MaxLeadingGroups, g \in MalformedGroups(account_id)}

\* What get_cost_and_usage may return for one account.
Responses(account_id) ==
    { [ResponseMetadata |-> "ok"],
      [ResultsByTime |-> <<>>],
      [ResultsByTime |-> << [Estimated |-> FALSE] >>] }
        \cup {[ResultsByTime |-> << [Groups |-> gs] >>] : gs \in GroupLists(account_id)}

\* Every group of the response, over all of its results.
AllGroups(response) ==
    LET results == DictGet(response, "ResultsByTime", <<>>) IN
    UNION { {DictGet(results[r], "Groups", <<>>)[g] :
                g \in 1..Len(DictGet(results[r], "Groups", <<>>))} : r \in 1..Len(results) }

\* Every group has the shape the API documents: a key and its metrics.
WellFormed(response) ==
    \A group \in AllGroups(response) :
        /\ {"Keys", "Metrics"} \subseteq DOMAIN group
        /\ group["Keys"] # <<>>

\* Some group of the response is keyed by account_id.
HasMatchingGroup(response, account_id) ==
    \E group \in AllGroups(response) :
        /\ "Keys" \in DOMAIN group
        /\ group["Keys"] # <<>>
        /\ group["Keys"][1] = account_id

(* --------------------------- scanning a response ---------------------- *)

\* Lines 88-97: both amounts are added and formatted, or ValueError leaves the raw
\* strings.  The first total is already updated when the second float() raises.
ParseAmounts(net_amortized_str, unblended_str, tn, tu) ==
    LET f1 == PyFloat(net_amortized_str)
        f2 == PyFloat(unblended_str)
        tn1 == IF f1.exc = "none" THEN tn + f1.val ELSE tn
        tu1 == IF f1.exc = "none" /\ f2.exc = "none" THEN tu + f2.val ELSE tu
        exc == IF f1.exc # "none" THEN f1.exc ELSE f2.exc
    IN  [exc |-> exc, total_net |-> tn1, total_unb |-> tu1,
         net |-> IF exc = "none" THEN FormatTwoDecimals(f1.val) ELSE net_amortized_str,
         unb |-> IF exc = "none" THEN FormatTwoDecimals(f2.val) ELSE unblended_str]

\* The outcome of the try body for one account: exc is the exception that left
\* it ("none" if a row was written), branch the line that wrote the row, found
\* whether lines 85-86 read the amount strings net_str and unb_str.
Outcome(exc, branch, net, unb, tn, tu, found, net_str, unb_str) ==
    [exc |-> exc, branch |-> branch, net |-> net, unb |-> unb,
     total_net |-> tn, total_unb |-> tu,
     found |-> found, net_str |-> net_str, unb_str |-> unb_str]

\* Lines 83-102 for the group whose key equals account_id.
MatchedGroup(group, tn, tu) ==
    IF "Metrics" \notin DOMAIN group
    THEN Outcome("KeyError", "none", NoneVal, NoneVal, tn, tu, FALSE, NoneVal, NoneVal)
    ELSE LET metrics == group["Metrics"]
             net_amortized_str ==
                 DictGet(DictGet(metrics, "NetAmortizedCost", <<>>), "Amount", DEFAULT_AMOUNT)
             unblended_str ==
                 DictGet(DictGet(metrics, "UnblendedCost", <<>>), "Amount", DEFAULT_AMOUNT)
             p == ParseAmounts(net_amortized_str, unblended_str, tn, tu)
         IN  IF p.exc = "none"
             THEN Outcome("none", "parsed", p.net, p.unb, p.total_net, p.total_unb,
                          TRUE, net_amortized_str, unblended_str)
             ELSE IF p.exc = "ValueError"
             THEN Outcome("none", "raw", p.net, p.unb, p.total_net, p.total_unb,
                          TRUE, net_amortized_str, unblended_str)
             ELSE Outcome(p.exc, "none", NoneVal, NoneVal, p.total_net, p.total_unb,
                          TRUE, net_amortized_str, unblended_str)

\* Lines 82-102: the loop over the groups, from position i.
RECURSIVE ScanGroups(_, _, _, _, _)
ScanGroups(groups, i, account_id, tn, tu) ==
    IF i > Len(groups)
    THEN Outcome("none", "zero", ZERO_COST, ZERO_COST, tn, tu, FALSE, NoneVal, NoneVal)
    ELSE LET group == groups[i] IN
         IF "Keys" \notin DOMAIN group
         THEN Outcome("KeyError", "none", NoneVal, NoneVal, tn, tu, FALSE, NoneVal, NoneVal)
         ELSE IF group["Keys"] = <<>>
         THEN Outcome("IndexError", "none", NoneVal, NoneVal, tn, tu, FALSE, NoneVal, NoneVal)
         ELSE IF group["Keys"][1] = account_id
         THEN MatchedGroup(group, tn, tu)
         ELSE ScanGroups(groups, i + 1, account_id, tn, tu)

\* Mutant: the first group is taken as the account's, its key not compared.
ScanResponse_FirstGroup(response, account_id, tn, tu) ==
    IF DictGet(response, "ResultsByTime", <<>>) # <<>>
          /\ DictGet(response["ResultsByTime"][1], "Groups", <<>>) # <<>>
    THEN MatchedGroup(response["ResultsByTime"][1]["Groups"][1], tn, tu)
    ELSE Outcome("none", "zero", ZERO_COST, ZERO_COST, tn, tu, FALSE, NoneVal, NoneVal)

\* Lines 80-106: the try body after the fetch returned response.
ScanResponse(response, account_id, tn, tu) ==
    IF DictGet(response, "ResultsByTime", <<>>) # <<>>
    THEN ScanGroups(DictGet(response["ResultsByTime"][1], "Groups", <<>>), 1,
                    account_id, tn, tu)
    ELSE Outcome("none", "zero", ZERO_COST, ZERO_COST, tn, tu, FALSE, NoneVal, NoneVal)

(* ------------------------------- state -------------------------------- *)

VARIABLES
    env,                  \* the four os.environ.get values read at import
    pc,                   \* position of lambda_handler
    today,                \* datetime.now() as get_previous_month_dates read it
    member_accounts,      \* the stripped account identifiers, in order
    start_date, end_date, \* the reporting period, as '%Y-%m-%d' strings
    report_month_year,    \* the period label, '%Y-%m'
    csv_rows,             \* the rows written to csv_writer, in order
    total_net_amortized,  \* running total, thousandths
    total_unblended,      \* running total, thousandths
    idx,                  \* position of the for loop in member_accounts
    result,               \* what lambda_handler returned, or the exception that left it
    calls,                \* the external calls issued so far, in order
    trace                 \* per processed account: what happened in its try block

vars ==
    <<env, pc, today, member_accounts, start_date, end_date, report_month_year,
      csv_rows, total_net_amortized, total_unblended, idx, result, calls, trace>>

NoDate == [year |-> 0, month |-> 0, day |-> 0]

NoResult == [pending |-> TRUE]

(* ------------------------------- inputs ------------------------------- *)

EnvChars == {"7", ","}

RECURSIVE StringsUpTo(_)
StringsUpTo(n) ==
    IF n = 0 THEN {<<>>}
    ELSE LET shorter == StringsUpTo(n - 1)
         IN  shorter \cup {Append(s, c) : s \in {t \in shorter : Len(t) = n - 1},
                                          c \in EnvChars}

\* s with a space around every comma, as in '7 , 7'.
RECURSIVE Spaced(_)
Spaced(s) ==
    IF s = <<>> THEN <<>>
    ELSE (IF Head(s) = "," THEN <<" ", ",", " ">> ELSE <<Head(s)>>) \o Spaced(Tail(s))

\* s with a space at both ends and around every comma, as in ' 7 , 7 '.
PaddedSpaced(s) == <<" ">> \o Spaced(s) \o <<" ">>

\* MEMBER_ACCOUNTS: unset, or a string with at most MaxAccounts entries, written
\* without whitespace or with whitespace around every entry.
MemberAccountsValues ==
    LET bare == {s \in StringsUpTo(MaxEnvLen) : Len(SplitComma(s)) <= MaxAccounts}
    IN  {NoneVal} \cup bare \cup {PaddedSpaced(s) : s \in bare}

\* SLACK_BOT_TOKEN, SLACK_CHANNEL_ID, MEMBER_ACCOUNT_ROLE_NAME: unset, empty or set.
SettingValues == {NoneVal, <<>>, <<"x">>}

\* The invocation date of the report runs: a January, so that the period lies in
\* the year before.  SpecPeriod runs over every date.
ReportDates == {[year |-> 2024, month |-> 1, day |-> 15]}

\* The invocation dates of the period check: every day of these years.
PeriodYears == {1900, 2000, 2023, 2024}

AllDates ==
    {[year |-> y, month |-> m, day |-> d] :
        y \in PeriodYears, m \in 1..12, d \in 1..31} \ 
    {dt \in [year : PeriodYears, month : 1..12, day : 29..31] :
        dt.day > DaysInMonth(dt.year, dt.month)}

Init ==
    /\ env \in [slack_token : SettingValues, slack_channel_id : SettingValues,
                member_account_role_name : SettingValues,
                member_accounts_str : MemberAccountsValues]
    /\ pc = "start"
    /\ today = NoDate
    /\ member_accounts = <<>>
    /\ start_date = NoneVal
    /\ end_date = NoneVal
    /\ report_month_year = NoneVal
    /\ csv_rows = <<>>
    /\ total_net_amortized = 0
    /\ total_unblended = 0
    /\ idx = 0
    /\ result = NoResult
    /\ calls = <<>>
    /\ trace = <<>>

(* ------------------------------ actions ------------------------------- *)

\* Mutant: the channel identifier is left out of the check.
ConfigComplete_NoChannel(e) ==
    /\ Truthy(e.slack_token)
    /\ Truthy(e.member_account_role_name)
    /\ Truthy(e.member_accounts_str)

\* Line 37: all([...]) over the four settings.
ConfigComplete(e) ==
    /\ Truthy(e.slack_token)
    /\ Truthy(e.slack_channel_id)
    /\ Truthy(e.member_account_role_name)
    /\ Truthy(e.member_accounts_str)

\* Lines 35-53: validate the settings, split the accounts, resolve the period,
\* write the header, zero the totals.
Start(now) ==
    /\ pc = "start"
    /\ IF ~ConfigComplete(env)
       THEN /\ result' = [statusCode |-> 500, body |-> "Missing environment variables"]
            /\ pc' = "done"
            /\ UNCHANGED <<today, member_accounts, start_date, end_date,
                           report_month_year, csv_rows, idx>>
       ELSE LET dates == get_previous_month_dates(now) IN
            /\ today' = now
            /\ member_accounts' = ParseMemberAccounts(env.member_accounts_str)
            /\ start_date' = dates[1]
            /\ end_date' = dates[2]
            /\ report_month_year' = StrftimeYm(StrptimeYmd(dates[1]))
            /\ csv_rows' = <<HEADER_ROW>>
            /\ idx' = 1
            /\ pc' = "assume"
            /\ UNCHANGED result
    /\ UNCHANGED <<env, total_net_amortized, total_unblended, calls, trace>>

account_id == member_accounts[idx]

\* The row of the account being processed, with the given cost fields.
AccountRow(net, unb) ==
    <<account_id, AccountName(account_id), report_month_year, net, unb>>

\* Lines 108-110: the except handler's row.
ErrorRow == AccountRow(ERROR_MARK, ERROR_MARK)

\* Mutant: the accounts after the first go straight to the fetch.
NextAccount_NoExchange ==
    /\ idx' = idx + 1
    /\ pc' = IF idx + 1 <= Len(member_accounts) THEN "fetch" ELSE "total"

\* The for loop moves on: the next account, or the code after the loop.
NextAccount ==
    /\ idx' = idx + 1
    /\ pc' = IF idx + 1 <= Len(member_accounts) THEN "assume" ELSE "total"

\* What the try block of the current account did: where an exception was raised
\* (stage), which line wrote the row (branch), the amount strings read, the
\* totals on entry, and the shape of the response received.
TraceEntry(stage, o, well_formed, has_match) ==
    [stage |-> stage, branch |-> o.branch, found |-> o.found,
     net_str |-> o.net_str, unb_str |-> o.unb_str,
     net_before |-> total_net_amortized, unb_before |-> total_unblended,
     well_formed |-> well_formed, has_match |-> has_match]

\* An exception raised by a collaborator call, before any amount was read.
Raised(exc) ==
    Outcome(exc, "none", NoneVal, NoneVal, total_net_amortized, total_unblended,
            FALSE, NoneVal, NoneVal)

\* Lines 61-71: the credential exchange and the Cost Explorer client.
AssumeRole ==
    /\ pc = "assume"
    /\ calls' = Append(calls, [op |-> "assume_role", idx |-> idx, account |-> account_id,
                               role |-> env.member_account_role_name,
                               rows |-> Len(csv_rows)])
    /\ \/ /\ pc' = "fetch"
          /\ UNCHANGED <<csv_rows, idx, trace>>
       \/ /\ csv_rows' = Append(csv_rows, ErrorRow)
          /\ trace' = Append(trace, TraceEntry("assume", Raised("ClientError"), FALSE, FALSE))
          /\ NextAccount
    /\ UNCHANGED <<env, today, member_accounts, start_date, end_date, report_month_year,
                   total_net_amortized, total_unblended, result>>

\* Lines 73-110 once the response is known: scan it and write the account's row.
HandleResponse(response) ==
    LET o == ScanResponse(response, account_id, total_net_amortized, total_unblended) IN
    /\ total_net_amortized' = o.total_net
    /\ total_unblended' = o.total_unb
    /\ csv_rows' = Append(csv_rows,
                          IF o.exc = "none" THEN AccountRow(o.net, o.unb) ELSE ErrorRow)
    /\ trace' = Append(trace, TraceEntry(IF o.exc = "none" THEN "none" ELSE "scan", o,
                                          WellFormed(response),
                                          HasMatchingGroup(response, account_id)))

\* Lines 73-110: the metrics fetch, the scan of its response, the row.
GetCostAndUsage ==
    /\ pc = "fetch"
    /\ calls' = Append(calls, [op |-> "get_cost_and_usage", idx |-> idx,
                               account |-> account_id,
                               start |-> start_date, end |-> end_date,
                               rows |-> Len(csv_rows)])
    /\ \/ /\ csv_rows' = Append(csv_rows, ErrorRow)
          /\ trace' = Append(trace, TraceEntry("fetch", Raised("ClientError"), FALSE, FALSE))
          /\ UNCHANGED <<total_net_amortized, total_unblended>>
       \/ \E response \in Responses(account_id) : HandleResponse(response)
    /\ NextAccount
    /\ UNCHANGED <<env, today, member_accounts, start_date, end_date, report_month_year,
                   result>>

\* Mutant: the Total row without the blank row before it.
WithTotals_NoBlank(rows) ==
    rows \o << <<TOTAL_LABEL, <<>>, <<>>, FormatTwoDecimals(total_net_amortized),
                 FormatTwoDecimals(total_unblended)>> >>

\* Lines 112-121: the blank row and the Total row.
WithTotals(rows) ==
    rows \o << <<>>,
               <<TOTAL_LABEL, <<>>, <<>>, FormatTwoDecimals(total_net_amortized),
                 FormatTwoDecimals(total_unblended)>> >>

\* Lines 136-141: the value returned after the upload, or the exception that
\* leaves lambda_handler; only SlackApiError is caught.
UploadResult(outcome) ==
    IF outcome = "ok"
    THEN [statusCode |-> 200, body |-> "Report generated and sent to Slack successfully"]
    ELSE IF outcome = "SlackApiError"
    THEN [statusCode |-> 500, body |-> "Error uploading file to Slack"]
    ELSE [raised |-> outcome]

\* What files_upload_v2 may do: succeed, raise SlackApiError, or raise an error
\* that is not a SlackApiError (no response from Slack: SlackRequestError, a timeout).
UploadOutcomes == {"ok", "SlackApiError", "SlackRequestError"}

\* Lines 112-141: the blank row, the Total row, then the upload.
Upload ==
    /\ pc = "total"
    /\ csv_rows' = WithTotals(csv_rows)
    /\ \E outcome \in UploadOutcomes :
          /\ calls' = Append(calls, [op |-> "files_upload_v2",
                                     channel |-> env.slack_channel_id,
                                     content |-> csv_rows',
                                     filename |-> CsvFilename(report_month_year),
                                     rows |-> Len(csv_rows'),
                                     outcome |-> outcome])
          /\ result' = UploadResult(outcome)
    /\ pc' = "done"
    /\ UNCHANGED <<env, today, member_accounts, start_date, end_date, report_month_year,
                   total_net_amortized, total_unblended, idx, trace>>

Next ==
    \/ \E now \in ReportDates : Start(now)
    \/ AssumeRole
    \/ GetCostAndUsage
    \/ Upload

Spec == Init /\ [][Next]_vars

\* The reporting period alone: one complete configuration, every invocation date.
InitPeriod ==
    /\ Init
    /\ env = [slack_token |-> <<"x">>, slack_channel_id |-> <<"x">>,
              member_account_role_name |-> <<"x">>, member_accounts_str |-> <<"7">>]

NextPeriod == \E now \in AllDates : Start(now)

SpecPeriod == InitPeriod /\ [][NextPeriod]_vars

(* ------------------------ vocabulary of the claims -------------------- *)

\* A required setting is missing (unset) or empty.
SomeSettingMissing ==
    \E k \in {"slack_token", "slack_channel_id", "member_account_role_name",
              "member_accounts_str"} : env[k] = NoneVal \/ env[k] = <<>>

\* The number of entries of MEMBER_ACCOUNTS: its commas plus one.
InputAccountCount ==
    Cardinality({i \in 1..Len(env.member_accounts_str) : env.member_accounts_str[i] = ","}) + 1

Finished == pc = "done"

\* The invocation got past the configuration check and ran to its end.
ReportFinished == Finished /\ ~SomeSettingMissing

\* The two cost columns of the row of the k-th account.
CostFields(k) == <<csv_rows[k + 1][4], csv_rows[k + 1][5]>>

\* The running totals right after the k-th account was processed.
NetAfter(k) == IF k < Len(trace) THEN trace[k + 1].net_before ELSE total_net_amortized

UnbAfter(k) == IF k < Len(trace) THEN trace[k + 1].unb_before ELSE total_unblended

TotalsUntouched(k) ==
    /\ NetAfter(k) = trace[k].net_before
    /\ UnbAfter(k) = trace[k].unb_before

UploadCalls == {i \in 1..Len(calls) : calls[i].op = "files_upload_v2"}

AssumeCalls(k) == {i \in 1..Len(calls) : calls[i].op = "assume_role" /\ calls[i].idx = k}

FetchCalls(k) ==
    {i \in 1..Len(calls) : calls[i].op = "get_cost_and_usage" /\ calls[i].idx = k}

(* ------------------------------- claims ------------------------------- *)

\* C1: whatever happened to each account, the finished report is the header row,
\* then one five-column row per MEMBER_ACCOUNTS entry whose first column is that
\* entry's identifier, in input order, then one blank row, then the Total row as
\* the last row; no other row is blank or a Total row, and this is what is uploaded.
C1_ReportShape ==
    ReportFinished =>
        LET n == InputAccountCount IN
        /\ Len(member_accounts) = n
        /\ Len(csv_rows) = n + 3
        /\ csv_rows[1] = HEADER_ROW
        /\ \A k \in 1..n :
              /\ Len(csv_rows[k + 1]) = 5
              /\ csv_rows[k + 1][1] = member_accounts[k]
              /\ csv_rows[k + 1][1] # TOTAL_LABEL
        /\ csv_rows[n + 2] = <<>>
        /\ Len(csv_rows[n + 3]) = 5
        /\ csv_rows[n + 3][1] = TOTAL_LABEL
        /\ \A i \in UploadCalls : calls[i].content = csv_rows

\* C1 witness: a finished report of two rows for the same identifier, the first an
\* ERROR row of a failed credential exchange, the second a row of raw amounts.
C1_Witness ==
    /\ ReportFinished
    /\ Len(trace) = 2
    /\ member_accounts[1] = member_accounts[2]
    /\ trace[1].stage = "assume"
    /\ trace[2].branch = "raw"
    /\ Len(csv_rows) = 5

\* C6: with a required setting missing or empty, no account is split off, no period
\* is computed, no row is written, no external call is issued, and the handler
\* returns status 500.
C6_MissingConfigAborts ==
    SomeSettingMissing =>
        /\ calls = <<>>
        /\ csv_rows = <<>>
        /\ trace = <<>>
        /\ member_accounts = <<>>
        /\ today = NoDate
        /\ start_date = NoneVal /\ end_date = NoneVal /\ report_month_year = NoneVal
        /\ pc \in {"start", "done"}
        /\ Finished => result = [statusCode |-> 500, body |-> "Missing environment variables"]

\* C6 witness: the handler has returned with only the channel identifier empty.
C6_Witness ==
    /\ Finished
    /\ env.slack_channel_id = <<>>
    /\ Truthy(env.slack_token)
    /\ Truthy(env.member_account_role_name)
    /\ Truthy(env.member_accounts_str)
    /\ result.statusCode = 500

\* C9: for the invocation date today, start_date is the first day of the month
\* before today's month (December of the year before for a January date), end_date
\* is the last day of that same month, which lies before today's month, and the
\* label is the year and month of start_date.
C9_PreviousMonth ==
    today # NoDate =>
        LET s == StrptimeYmd(start_date)
            e == StrptimeYmd(end_date)
        IN  /\ Len(start_date) = 10 /\ Len(end_date) = 10
            /\ s.day = 1
            /\ IF today.month = 1
               THEN s.year = today.year - 1 /\ s.month = 12
               ELSE s.year = today.year /\ s.month = today.month - 1
            /\ e.year = s.year /\ e.month = s.month
            /\ e.day = DaysInMonth(s.year, s.month)
            /\ e.year < today.year \/ (e.year = today.year /\ e.month < today.month)
            /\ report_month_year = SubSeq(start_date, 1, 7)

\* C9 witness: invoked on 1 March of a leap year, the period ends on 29 February.
C9_Witness ==
    /\ today = [year |-> 2024, month |-> 3, day |-> 1]
    /\ start_date = <<"2", "0", "2", "4", "-", "0", "2", "-", "0", "1">>
    /\ end_date = <<"2", "0", "2", "4", "-", "0", "2", "-", "2", "9">>
    /\ report_month_year = <<"2", "0", "2", "4", "-", "0", "2">>

\* C2: an account whose try block was left by an exception (in the credential
\* exchange, the fetch or the scan of the response) has ERROR in both cost columns
\* and leaves both running totals as they were before it.
C2_ExceptionIsolated ==
    \A k \in 1..Len(trace) :
        trace[k].stage # "none" =>
            /\ CostFields(k) = <<ERROR_MARK, ERROR_MARK>>
            /\ TotalsUntouched(k)

\* C3: for a matching group with two amount strings, if either does not parse then
\* neither total changes and the row holds the two strings as received; if both
\* parse, both totals grow by the parsed amounts.
C3_ParseFailureLeavesTotals ==
    \A k \in 1..Len(trace) :
        (trace[k].found /\ trace[k].net_str # NoneVal /\ trace[k].unb_str # NoneVal) =>
            LET n == PyFloat(trace[k].net_str)
                u == PyFloat(trace[k].unb_str)
            IN  IF n.exc = "none" /\ u.exc = "none"
                THEN /\ NetAfter(k) = trace[k].net_before + n.val
                     /\ UnbAfter(k) = trace[k].unb_before + u.val
                ELSE /\ TotalsUntouched(k)
                     /\ CostFields(k) = <<trace[k].net_str, trace[k].unb_str>>

\* The sum of the unrounded amounts of the first k accounts whose row shows parsed
\* amounts; metric is "net_str" or "unb_str".
RECURSIVE ParsedSum(_, _)
ParsedSum(k, metric) ==
    IF k = 0 THEN 0
    ELSE ParsedSum(k - 1, metric)
            + (IF trace[k].branch = "parsed" THEN PyFloat(trace[k][metric]).val ELSE 0)

\* C4: in the finished report each total is the sum of the unrounded parsed amounts
\* of exactly the accounts whose row shows parsed amounts, and the Total row shows
\* those sums rounded to two digits.
C4_TotalsAreParsedSums ==
    ReportFinished =>
        /\ total_net_amortized = ParsedSum(Len(trace), "net_str")
        /\ total_unblended = ParsedSum(Len(trace), "unb_str")
        /\ csv_rows[Len(csv_rows)][4] = FormatTwoDecimals(ParsedSum(Len(trace), "net_str"))
        /\ csv_rows[Len(csv_rows)][5] = FormatTwoDecimals(ParsedSum(Len(trace), "unb_str"))

DeliveryFailed == \E i \in UploadCalls : calls[i].outcome # "ok"

\* C5: every finished invocation returned a status and a message; the status is
\* 500 if a setting is missing or the delivery failed in any way, and 200 otherwise.
C5_AlwaysStructuredResult ==
    Finished =>
        /\ DOMAIN result = {"statusCode", "body"}
        /\ result.statusCode = IF SomeSettingMissing \/ DeliveryFailed THEN 500 ELSE 200

\* C7 as stated: every finished invocation issued exactly one upload, named
\* aws_cost_<label>.csv.
C7_UploadOncePerInvocation ==
    Finished =>
        /\ Cardinality(UploadCalls) = 1
        /\ \A i \in UploadCalls :
              calls[i].filename = FILE_PREFIX \o report_month_year \o FILE_SUFFIX

\* C7 amended: at most one upload is ever issued; an invocation that passed the
\* configuration check issues exactly one, named aws_cost_<label>.csv with the
\* period label, whatever happened to the accounts and whether or not the upload
\* failed; an invocation with a setting missing issues none.
C7_UploadOnceWhenConfigured ==
    /\ Cardinality(UploadCalls) <= 1
    /\ Finished =>
          IF SomeSettingMissing THEN UploadCalls = {}
          ELSE /\ Cardinality(UploadCalls) = 1
               /\ \A i \in UploadCalls :
                     /\ calls[i].filename = FILE_PREFIX \o report_month_year \o FILE_SUFFIX
                     /\ report_month_year = SubSeq(start_date, 1, 7)
                     /\ i = Len(calls)

\* C7 witness: every account failed, the one upload failed too, and nothing followed.
C7_Witness ==
    /\ ReportFinished
    /\ Len(trace) = 2
    /\ \A k \in 1..2 : trace[k].stage # "none"
    /\ Cardinality(UploadCalls) = 1
    /\ DeliveryFailed
    /\ calls[Len(calls)].filename =
           <<"a", "w", "s", "_", "c", "o", "s", "t", "_",
             "2", "0", "2", "3", "-", "1", "2", ".", "c", "s", "v">>

\* C8: when the fetch returned a response of the documented shape in which no group
\* is keyed by the account, the account's row has 0.00 in both cost columns and
\* both totals are as they were before it.
C8_NoGroupGivesZeroRow ==
    \A k \in 1..Len(trace) :
        (trace[k].stage \notin {"assume", "fetch"}
            /\ trace[k].well_formed /\ ~trace[k].has_match) =>
                /\ CostFields(k) = <<ZERO_COST, ZERO_COST>>
                /\ TotalsUntouched(k)

\* C8 witness: a second account without a matching group, after a first account
\* that put amounts into both totals.
C8_Witness ==
    /\ Len(trace) = 2
    /\ trace[1].branch = "parsed"
    /\ trace[2].stage = "none" /\ trace[2].well_formed /\ ~trace[2].has_match
    /\ trace[2].net_before # 0 /\ trace[2].unb_before # 0
    /\ CostFields(2) = <<ZERO_COST, ZERO_COST>>

\* C10: the calls are issued in one sequence.  The k-th credential exchange is for
\* the k-th account and is issued when exactly the header and k-1 account rows are
\* written; each account gets exactly one credential exchange and at most one
\* fetch; a fetch directly follows the credential exchange of its own account, which
\* did not fail; the upload is the last call, issued with all rows, the blank row
\* and the Total row written.
C10_CallSequence ==
    /\ \A i \in 1..Len(calls) :
          /\ calls[i].op = "assume_role" =>
                /\ calls[i].rows = calls[i].idx
                /\ calls[i].account = member_accounts[calls[i].idx]
                /\ \A j \in 1..(i - 1) : calls[j].idx < calls[i].idx
          /\ calls[i].op = "get_cost_and_usage" =>
                /\ i > 1
                /\ calls[i - 1].op = "assume_role"
                /\ calls[i - 1].idx = calls[i].idx
                /\ calls[i].account = member_accounts[calls[i].idx]
                /\ calls[i].rows = calls[i].idx
                /\ Len(trace) >= calls[i].idx => trace[calls[i].idx].stage # "assume"
          /\ calls[i].op = "files_upload_v2" =>
                /\ i = Len(calls)
                /\ calls[i].rows = Len(member_accounts) + 3
                /\ Len(trace) = Len(member_accounts)
                /\ \A k \in 1..Len(member_accounts) : Cardinality(AssumeCalls(k)) = 1
    /\ \A k \in 1..Len(member_accounts) :
          /\ Cardinality(AssumeCalls(k)) = (IF k <= Len(trace) \/ (k = idx /\ pc = "fetch") THEN 1 ELSE 0)
          /\ Cardinality(FetchCalls(k)) <= 1
          /\ (k <= Len(trace) /\ trace[k].stage = "assume") => FetchCalls(k) = {}
          /\ (k <= Len(trace) /\ trace[k].stage # "assume") => Cardinality(FetchCalls(k)) = 1

\* C10 witness: two accounts, the first fetched, the second failing its credential
\* exchange: credential exchange, fetch, credential exchange, upload.
C10_Witness ==
    /\ Finished
    /\ Len(calls) = 4
    /\ calls[1].op = "assume_role" /\ calls[1].idx = 1
    /\ calls[2].op = "get_cost_and_usage" /\ calls[2].idx = 1
    /\ calls[3].op = "assume_role" /\ calls[3].idx = 2
    /\ calls[4].op = "files_upload_v2"
    /\ trace[2].stage = "assume"

====
